---- MODULE Spec2Model ----
(***************************************************************************)
(* The Incrementer contract of src/lib.rs as a state machine.              *)
(*                                                                         *)
(* The state is the contract's storage struct (bool_value, number,         *)
(* lazy_number, account_number_map, balance).  The initial states are the  *)
(* results of the two constructors, every other action is one message of   *)
(* the impl block, invoked by a caller the host supplies.  The messages    *)
(* run one at a time (the host serialises them), so one message is one     *)
(* step.                                                                   *)
(*                                                                         *)
(* u32 is modelled at a reduced width (U32Bits bits) so that the whole     *)
(* value range, overflow included, is enumerated.                          *)
(***************************************************************************)
EXTENDS Integers, FiniteSets, Sequences, TLC

(* ------------------------------ bounds -------------------------------- *)

\* Width of the modelled u32 in bits: values are 0 .. 2^U32Bits - 1.
U32Bits == 4

\* Number of calls issued after construction in one behaviour.
MaxCalls == 3

\* Number of calls in a behaviour that issues only eager-counter calls.
MaxNumberCalls == 4

Modulus == 2 ^ U32Bits

U32Max == Modulus - 1

U32 == 0 .. U32Max

\* The callers the host can resolve (AccountId values).
AccountId == {"alice", "bob"}

\* The caller field of a call that resolves no caller.
NoCaller == "nobody"

\* Arguments the callers pass to new_value of set_number and set_number_lazy,
SetArgs == {3, U32Max}

\* to by of inc and inc_lazy,
IncArgs == {1, 2, 4}

\* to value of set_my_number,
SetMyArgs == {0, 3, U32Max}

\* and to value of add_my_number.
AddMyArgs == {0, 3, 4}

\* Argument lists passed to new(init_value, init_number, init_lazy_number,
\* init_balance); <<FALSE, 4, 4, 0>> is the one the tests pass.
NewArgs == {<<FALSE, 0, 0, 0>>, <<FALSE, 4, 4, 0>>, <<TRUE, U32Max, 4, 5>>,
            <<TRUE, 4, U32Max, 5>>}

(* --------------------------- Default::default ------------------------- *)

\* <bool as Default>::default()
DefaultBool == FALSE

\* <u32 as Default>::default()
DefaultU32 == 0

\* <Balance as Default>::default()
DefaultBalance == 0

(* ------------------------------- state -------------------------------- *)

VARIABLES
    bool_value,          \* Incrementer.bool_value
    number,              \* Incrementer.number
    lazy_number,         \* Incrementer.lazy_number: [loaded, value]
    account_number_map,  \* Incrementer.account_number_map: a function on its keys
    balance,             \* Incrementer.balance
    overflow_checks,     \* the build: TRUE when `+` on u32 panics on overflow
    last,                \* the call that produced this state, with its result
    calls,               \* calls issued since construction
    left,                \* calls the callers have still to issue
    writes,              \* per identity, its set_my_number and add_my_number calls
    init_balance,        \* the init_balance the constructor was given
    eager_shadow,        \* an eager counter fed the lazy counter's calls
    shadow_ret,          \* what the eager counter answered to the last of them
    number_test_pc,      \* progress of number_test's script on the eager counter
    flips,               \* consecutive flip calls ending in this state
    unflipped,           \* the storage before the first of them
    twin_map,            \* per identity A, a map fed the same calls that began
                         \* with A present at 0 where account_number_map had
                         \* no A
    twin_ret,            \* per identity A, what the last read answered on twin_map[A]
    lazy_ops,            \* the calls the last message made on the Lazy cell, in order
    set_value,           \* per identity, the value of its set_my_number that
                         \* still stands (-1: none, or an add_my_number since)
    ledger               \* per identity, its last set value plus its completed adds

vars == <<bool_value, number, lazy_number, account_number_map, balance,
          overflow_checks, last, calls, left, writes, init_balance, eager_shadow,
          shadow_ret, number_test_pc, flips, unflipped, twin_map, twin_ret,
          lazy_ops, set_value, ledger>>

storage == <<bool_value, number, lazy_number, account_number_map, balance>>

(* ------------------------------ u32 `+` ------------------------------- *)

\* a + b on u32.  The source uses the plain operator, whose behaviour on
\* overflow is set by the build profile: with overflow checks (debug and
\* test builds, or overflow-checks = true) the addition panics, without
\* them it wraps.  A behaviour fixes one build (overflow_checks).  A panic
\* ends the call where it stands: what the call assigned before it stays
\* assigned, nothing after it runs.
U32Add(a, b) ==
    IF a + b > U32Max
    THEN IF overflow_checks
         THEN [trapped |-> TRUE, value |-> a]
         ELSE [trapped |-> FALSE, value |-> (a + b) % Modulus]
    ELSE [trapped |-> FALSE, value |-> a + b]

(* --------------------------- ink_storage::Lazy ------------------------ *)

\* The cell type comes from the ink_storage crate; it is modelled as the
\* two-state cell (unloaded seed / loaded value) of the design document.

\* Lazy::new(seed): an unloaded cell holding the seed.
LazyNew(seed) == [loaded |-> FALSE, value |-> seed]

\* Lazy::get(cell): the cell after the access (loaded) ...
LazyGet(cell) == [loaded |-> TRUE, value |-> cell.value]

\* ... and the value the access returns.
LazyValue(cell) == cell.value

\* Lazy::set(cell, v): the cell is loaded and holds v.
LazySet(cell, v) == [loaded |-> TRUE, value |-> v]

(* ------------------------ collections::HashMap ------------------------ *)

\* HashMap::new()
EmptyMap == [k \in {} |-> 0]

\* HashMap::insert(key, value): insert or overwrite.
Insert(map, key, value) ==
    [k \in (DOMAIN map) \cup {key} |-> IF k = key THEN value ELSE map[k]]

\* get that reads a missing key as 1.
my_number_or_one(map, of) == IF of \in DOMAIN map THEN map[of] ELSE 1

\* fn my_number_or_zero(&self, of): map.get(of).unwrap_or(&0)
my_number_or_zero(map, of) ==
    IF of \in DOMAIN map THEN map[of] ELSE 0

(* ------------------------------- calls -------------------------------- *)

\* A call record: the operation, the caller the host resolved for it (for
\* get: its `of` argument), its arguments (abool, a1, a2, a3), its result
\* (rbool or ret) and whether it panicked.
Call(op, caller, abool, a1, a2, a3, rbool, ret, trapped) ==
    [op |-> op, caller |-> caller, abool |-> abool, a1 |-> a1, a2 |-> a2,
     a3 |-> a3, rbool |-> rbool, ret |-> ret, trapped |-> trapped]

\* The record of a message with at most one u32 argument and a u32 result.
Msg(op, caller, a1, ret, trapped) ==
    Call(op, caller, FALSE, a1, 0, 0, FALSE, ret, trapped)

\* number_test: set_number(3); inc(4); inc(1); inc(2)
NumberTestScript == <<[op |-> "set_number", a1 |-> 3], [op |-> "inc", a1 |-> 4],
                      [op |-> "inc", a1 |-> 1], [op |-> "inc", a1 |-> 2]>>

\* The script position after a call on the eager counter.
ScriptStep(pc, op, a1, trapped) ==
    IF ~trapped /\ pc < Len(NumberTestScript)
       /\ NumberTestScript[pc + 1] = [op |-> op, a1 |-> a1]
    THEN pc + 1
    ELSE IF ~trapped /\ NumberTestScript[1] = [op |-> op, a1 |-> a1]
         THEN 1
         ELSE 0

\* What a call that is no read of the map answers on the twin maps.
NoTwinRet == [a \in AccountId |-> 0]

\* No set_my_number of the identity stands.
NoSetValue == 0 - 1

\* The answer of a call: the value it returned and whether it panicked.
Answer(ret, trapped) == [ret |-> ret, trapped |-> trapped]

NoAnswer == Answer(0, FALSE)

(* ---------------------------- constructors ---------------------------- *)

\* new that stores init_lazy_number in number and init_number in lazy_number.
NewStorageSwapsNumbers(init_value, init_number, init_lazy_number, init_bal) ==
    /\ bool_value = init_value
    /\ number = init_lazy_number
    /\ lazy_number = LazyNew(init_number)
    /\ account_number_map = EmptyMap
    /\ balance = init_bal

\* pub fn new(init_value, init_number, init_lazy_number, init_balance)
NewStorage(init_value, init_number, init_lazy_number, init_bal) ==
    /\ bool_value = init_value
    /\ number = init_number
    /\ lazy_number = LazyNew(init_lazy_number)
    /\ account_number_map = EmptyMap
    /\ balance = init_bal

new(init_value, init_number, init_lazy_number, init_bal) ==
    /\ NewStorage(init_value, init_number, init_lazy_number, init_bal)
    /\ last = Call("new", NoCaller, init_value, init_number, init_lazy_number,
                   init_bal, FALSE, 0, FALSE)
    /\ init_balance = init_bal
    /\ eager_shadow = init_lazy_number

\* default() that passes true for init_value.
default_passes_true ==
    /\ bool_value = TRUE
    /\ number = 0
    /\ lazy_number = [loaded |-> FALSE, value |-> 0]
    /\ account_number_map = [k \in {} |-> 0]
    /\ balance = 0
    /\ last = [op |-> "default", caller |-> "nobody", abool |-> FALSE, a1 |-> 0,
               a2 |-> 0, a3 |-> 0, rbool |-> FALSE, ret |-> 0, trapped |-> FALSE]
    /\ init_balance = 0
    /\ eager_shadow = 0

\* pub fn default(): Self::new(Default::default(), ...)
default ==
    /\ NewStorage(DefaultBool, DefaultU32, DefaultU32, DefaultBalance)
    /\ last = Call("default", NoCaller, FALSE, 0, 0, 0, FALSE, 0, FALSE)
    /\ init_balance = DefaultBalance
    /\ eager_shadow = DefaultU32

Constructed ==
    /\ overflow_checks \in BOOLEAN
    /\ calls = 0
    /\ writes = [a \in AccountId |-> 0]
    /\ number_test_pc = 0
    /\ shadow_ret = NoAnswer
    /\ \/ default
       \/ \E a \in NewArgs : new(a[1], a[2], a[3], a[4])
    /\ flips = 0
    /\ unflipped = storage
    /\ twin_map = [a \in AccountId |-> Insert(account_number_map, a, 0)]
    /\ twin_ret = NoTwinRet
    /\ lazy_ops = <<>>
    /\ set_value = [a \in AccountId |-> NoSetValue]
    /\ ledger = [a \in AccountId |-> 0]

Init == Constructed /\ left = MaxCalls

(* ------------------------------ messages ------------------------------ *)

Called == left > 0 /\ left' = left - 1 /\ calls' = calls + 1

Fixed == UNCHANGED <<overflow_checks, init_balance>>

Wrote(caller) == writes' = [writes EXCEPT ![caller] = @ + 1]

\* A message that does not touch account_number_map.
MapIdle == UNCHANGED <<twin_map, set_value, ledger>> /\ twin_ret' = NoTwinRet

\* A message that touches neither account_number_map nor lazy_number.
Idle == MapIdle /\ lazy_ops' = <<>>

\* Any call but flip ends a run of flips.
NoFlip == flips' = 0 /\ unflipped' = storage'

\* flip that sets the flag.
FlipSets(b) == TRUE

\* !self.bool_value
Flip(b) == ~b

\* pub fn flip(&mut self)
flip ==
    /\ Called
    /\ bool_value' = Flip(bool_value)
    /\ last' = Msg("flip", NoCaller, 0, 0, FALSE)
    /\ flips' = flips + 1
    /\ unflipped' = IF flips = 0 THEN storage ELSE unflipped
    /\ UNCHANGED <<number, lazy_number, account_number_map, balance,
                   eager_shadow, shadow_ret, number_test_pc, writes>>
    /\ Idle
    /\ Fixed

\* pub fn get_bool(&self) -> bool
get_bool ==
    /\ Called
    /\ last' = Call("get_bool", NoCaller, FALSE, 0, 0, 0, bool_value, 0, FALSE)
    /\ UNCHANGED <<storage, eager_shadow, shadow_ret, number_test_pc, writes>>
    /\ NoFlip
    /\ Idle
    /\ Fixed

\* self.number
GetNumber(n) == n

\* pub fn get_number(&self) -> u32
get_number ==
    /\ Called
    /\ last' = Msg("get_number", NoCaller, 0, GetNumber(number), FALSE)
    /\ UNCHANGED <<storage, eager_shadow, shadow_ret, number_test_pc, writes>>
    /\ NoFlip
    /\ Idle
    /\ Fixed

\* set_number with `+=` written for `=`.
SetNumberAdds(n, new_value) == (n + new_value) % Modulus

\* self.number = new_value
SetNumber(n, new_value) == new_value

\* pub fn set_number(&mut self, new_value: u32)
set_number(new_value) ==
    /\ Called
    /\ number' = SetNumber(number, new_value)
    /\ last' = Msg("set_number", NoCaller, new_value, 0, FALSE)
    /\ number_test_pc' = ScriptStep(number_test_pc, "set_number", new_value, FALSE)
    /\ UNCHANGED <<bool_value, lazy_number, account_number_map, balance,
                   eager_shadow, shadow_ret, writes>>
    /\ NoFlip
    /\ Idle
    /\ Fixed

\* inc with `=` written for `+=`.
IncNumberAssigns(n, by) == [trapped |-> FALSE, value |-> by]

\* self.number += by: the addition panics before the store, or the sum is stored.
IncNumber(n, by) == U32Add(n, by)

\* pub fn inc(&mut self, by: u32)
inc(by) ==
    LET r == IncNumber(number, by) IN
    /\ Called
    /\ number' = r.value
    /\ last' = Msg("inc", NoCaller, by, 0, r.trapped)
    /\ number_test_pc' = ScriptStep(number_test_pc, "inc", by, r.trapped)
    /\ UNCHANGED <<bool_value, lazy_number, account_number_map, balance,
                   eager_shadow, shadow_ret, writes>>
    /\ NoFlip
    /\ Idle
    /\ Fixed

\* get_number_lazy that takes the value out of the cell, leaving the default.
GetNumberLazyTakes(cell) ==
    [cell |-> LazySet(LazyGet(cell), DefaultU32), ret |-> LazyValue(cell),
     ops |-> <<"get">>]

\* let x = Lazy::get(&mut self.lazy_number); x.clone()
GetNumberLazy(cell) ==
    [cell |-> LazyGet(cell), ret |-> LazyValue(cell), ops |-> <<"get">>]

\* pub fn get_number_lazy(&mut self) -> u32
get_number_lazy ==
    LET r == GetNumberLazy(lazy_number) IN
    /\ Called
    /\ lazy_number' = r.cell
    /\ last' = Msg("get_number_lazy", NoCaller, 0, r.ret, FALSE)
    /\ lazy_ops' = r.ops
    /\ eager_shadow' = eager_shadow
    /\ shadow_ret' = Answer(GetNumber(eager_shadow), FALSE)
    /\ UNCHANGED <<bool_value, number, account_number_map, balance,
                   number_test_pc, writes>>
    /\ MapIdle
    /\ NoFlip
    /\ Fixed

\* Lazy::set(&mut self.lazy_number, new_value)
SetNumberLazy(cell, new_value) == [cell |-> LazySet(cell, new_value), ops |-> <<"set">>]

\* pub fn set_number_lazy(&mut self, new_value: u32)
set_number_lazy(new_value) ==
    LET r == SetNumberLazy(lazy_number, new_value) IN
    /\ Called
    /\ lazy_number' = r.cell
    /\ last' = Msg("set_number_lazy", NoCaller, new_value, 0, FALSE)
    /\ lazy_ops' = r.ops
    /\ eager_shadow' = SetNumber(eager_shadow, new_value)
    /\ shadow_ret' = Answer(0, FALSE)
    /\ UNCHANGED <<bool_value, number, account_number_map, balance,
                   number_test_pc, writes>>
    /\ MapIdle
    /\ NoFlip
    /\ Fixed

\* inc_lazy with wrapping_add written for `+`.
IncLazyWrapping(cell, by) ==
    [trapped |-> FALSE,
     cell |-> LazySet(LazyGet(cell), (LazyValue(cell) + by) % Modulus),
     ops |-> <<"get", "set">>]

\* inc_lazy that sets `by` and forgets the value it read.
IncLazyForgetsCur(cell, by) ==
    [trapped |-> FALSE, cell |-> LazySet(LazyGet(cell), by), ops |-> <<"get", "set">>]

\* inc_lazy that sets `by` without reading the cell.
IncLazySetsBlind(cell, by) ==
    [trapped |-> FALSE, cell |-> LazySet(cell, by), ops |-> <<"set">>]

\* let cur = Lazy::get(cell); Lazy::set(cell, cur + by): the cell is read
\* (and so loaded) first; the addition panics before the set, or the sum is set.
IncLazy(cell, by) ==
    LET read == LazyGet(cell)
        sum == U32Add(LazyValue(cell), by)
    IN  IF sum.trapped
        THEN [trapped |-> TRUE, cell |-> read, ops |-> <<"get">>]
        ELSE [trapped |-> FALSE, cell |-> LazySet(read, sum.value),
              ops |-> <<"get", "set">>]

\* pub fn inc_lazy(&mut self, by: u32)
inc_lazy(by) ==
    LET r == IncLazy(lazy_number, by)
        e == IncNumber(eager_shadow, by)
    IN
    /\ Called
    /\ lazy_number' = r.cell
    /\ last' = Msg("inc_lazy", NoCaller, by, 0, r.trapped)
    /\ lazy_ops' = r.ops
    /\ eager_shadow' = e.value
    /\ shadow_ret' = Answer(0, e.trapped)
    /\ UNCHANGED <<bool_value, number, account_number_map, balance,
                   number_test_pc, writes>>
    /\ MapIdle
    /\ NoFlip
    /\ Fixed

\* get through an entry API that inserts the default for a missing key.
get_inserting(of) ==
    /\ left > 0 /\ left' = left - 1 /\ calls' = calls + 1
    /\ account_number_map' =
           Insert(account_number_map, of, my_number_or_zero(account_number_map, of))
    /\ last' = [op |-> "get", caller |-> of, abool |-> FALSE, a1 |-> 0, a2 |-> 0,
                a3 |-> 0, rbool |-> FALSE,
                ret |-> my_number_or_zero(account_number_map, of),
                trapped |-> FALSE]
    /\ UNCHANGED <<bool_value, number, lazy_number, balance, eager_shadow,
                   shadow_ret, number_test_pc, writes, overflow_checks,
                   init_balance, twin_map, set_value, ledger>>
    /\ twin_ret' = [a \in AccountId |-> my_number_or_zero(twin_map[a], of)]
    /\ lazy_ops' = <<>>
    /\ flips' = 0
    /\ unflipped' = <<bool_value', number', lazy_number', account_number_map',
                      balance'>>

\* self.my_number_or_zero(&of)
GetOf(map, of) == my_number_or_zero(map, of)

\* pub fn get(&self, of: AccountId) -> u32
get(of) ==
    /\ Called
    /\ last' = Msg("get", of, 0, GetOf(account_number_map, of), FALSE)
    /\ twin_ret' = [a \in AccountId |-> GetOf(twin_map[a], of)]
    /\ lazy_ops' = <<>>
    /\ UNCHANGED <<storage, eager_shadow, shadow_ret, number_test_pc, writes,
                   twin_map, set_value, ledger>>
    /\ NoFlip
    /\ Fixed

\* let caller = self.env().caller(); self.my_number_or_zero(&caller)
GetMyNumber(map, caller) == my_number_or_zero(map, caller)

\* pub fn get_my_number(&self) -> u32, caller = self.env().caller()
get_my_number(caller) ==
    /\ Called
    /\ last' = Msg("get_my_number", caller, 0,
                   GetMyNumber(account_number_map, caller), FALSE)
    /\ twin_ret' = [a \in AccountId |-> GetMyNumber(twin_map[a], caller)]
    /\ lazy_ops' = <<>>
    /\ UNCHANGED <<storage, eager_shadow, shadow_ret, number_test_pc, writes,
                   twin_map, set_value, ledger>>
    /\ NoFlip
    /\ Fixed

\* set_my_number that keeps a value the caller already has.
SetMyNumberKeepsFirst(map, caller, value) ==
    IF caller \in DOMAIN map THEN map ELSE Insert(map, caller, value)

\* set_my_number that stores into a fresh map.
SetMyNumberFresh(map, caller, value) == Insert(EmptyMap, caller, value)

\* self.account_number_map.insert(caller, value)
SetMyNumber(map, caller, value) == Insert(map, caller, value)

\* pub fn set_my_number(&mut self, value: u32), caller = self.env().caller()
set_my_number(caller, value) ==
    /\ Called
    /\ account_number_map' = SetMyNumber(account_number_map, caller, value)
    /\ last' = Msg("set_my_number", caller, value, 0, FALSE)
    /\ twin_map' = [a \in AccountId |-> SetMyNumber(twin_map[a], caller, value)]
    /\ twin_ret' = NoTwinRet
    /\ lazy_ops' = <<>>
    /\ set_value' = [set_value EXCEPT ![caller] = value]
    /\ ledger' = [ledger EXCEPT ![caller] = value]
    /\ UNCHANGED <<bool_value, number, lazy_number, balance, eager_shadow,
                   shadow_ret, number_test_pc>>
    /\ Wrote(caller)
    /\ NoFlip
    /\ Fixed

\* add_my_number that inserts the sum only when the caller has no entry yet.
AddMyNumberDropsSecond(map, caller, value) ==
    LET sum == U32Add(my_number_or_zero(map, caller), value)
    IN  IF sum.trapped
        THEN [trapped |-> TRUE, map |-> map]
        ELSE [trapped |-> FALSE,
              map |-> IF caller \in DOMAIN map THEN map
                      ELSE Insert(map, caller, sum.value)]

\* add_my_number that returns early on a zero delta.
AddMyNumberSkipsZero(map, caller, value) ==
    LET sum == U32Add(my_number_or_zero(map, caller), value)
    IN  IF sum.trapped
        THEN [trapped |-> TRUE, map |-> map]
        ELSE [trapped |-> FALSE,
              map |-> IF value = 0 THEN map ELSE Insert(map, caller, sum.value)]

\* add_my_number that inserts `value` and forgets the caller's number.
AddMyNumberForgets(map, caller, value) ==
    [trapped |-> FALSE, map |-> Insert(map, caller, value)]

\* add_my_number that inserts the wrapped sum and then panics on overflow.
AddMyNumberInsertsFirst(map, caller, value) ==
    LET cur == my_number_or_zero(map, caller)
    IN  [trapped |-> overflow_checks /\ cur + value > U32Max,
         map |-> Insert(map, caller, (cur + value) % Modulus)]

\* let my_number = self.my_number_or_zero(&caller);
\* self.account_number_map.insert(caller, my_number + value): the addition
\* panics before the insert, or the sum is inserted.
AddMyNumber(map, caller, value) ==
    LET sum == U32Add(my_number_or_zero(map, caller), value)
    IN  IF sum.trapped
        THEN [trapped |-> TRUE, map |-> map]
        ELSE [trapped |-> FALSE, map |-> Insert(map, caller, sum.value)]

\* The ledger of a caller after its add_my_number(value) answered r: the
\* delta is credited when the sum fits u32; on overflow the ledger follows
\* what the call left in the map.
Credited(total, value, r) ==
    IF total + value <= U32Max /\ ~r.trapped
    THEN total + value
    ELSE IF r.trapped THEN total ELSE (total + value) % Modulus

\* pub fn add_my_number(&mut self, value: u32), caller = self.env().caller()
\* (a pub fn of the impl block without the #[ink(message)] attribute)
add_my_number(caller, value) ==
    LET r == AddMyNumber(account_number_map, caller, value) IN
    /\ Called
    /\ account_number_map' = r.map
    /\ last' = Msg("add_my_number", caller, value, 0, r.trapped)
    /\ twin_map' = [a \in AccountId |-> AddMyNumber(twin_map[a], caller, value).map]
    /\ twin_ret' = NoTwinRet
    /\ lazy_ops' = <<>>
    /\ set_value' = [set_value EXCEPT ![caller] = NoSetValue]
    /\ ledger' = [ledger EXCEPT ![caller] = Credited(@, value, r)]
    /\ UNCHANGED <<bool_value, number, lazy_number, balance, eager_shadow,
                   shadow_ret, number_test_pc>>
    /\ Wrote(caller)
    /\ NoFlip
    /\ Fixed

\* get_balance that returns self.number.
get_balance_returns_number ==
    /\ left > 0 /\ left' = left - 1 /\ calls' = calls + 1
    /\ last' = [op |-> "get_balance", caller |-> "nobody", abool |-> FALSE,
                a1 |-> 0, a2 |-> 0, a3 |-> 0, rbool |-> FALSE, ret |-> number,
                trapped |-> FALSE]
    /\ UNCHANGED <<bool_value, number, lazy_number, account_number_map, balance,
                   eager_shadow, shadow_ret, number_test_pc, writes,
                   overflow_checks, init_balance, twin_map, set_value, ledger>>
    /\ twin_ret' = [a \in AccountId |-> 0]
    /\ lazy_ops' = <<>>
    /\ flips' = 0
    /\ unflipped' = <<bool_value, number, lazy_number, account_number_map,
                      balance>>

\* pub fn get_balance(&self) -> Balance
get_balance ==
    /\ Called
    /\ last' = Msg("get_balance", NoCaller, 0, balance, FALSE)
    /\ UNCHANGED <<storage, eager_shadow, shadow_ret, number_test_pc, writes>>
    /\ NoFlip
    /\ Idle
    /\ Fixed

Next ==
    \/ flip
    \/ get_bool
    \/ get_number
    \/ \E new_value \in SetArgs : set_number(new_value)
    \/ \E by \in IncArgs : inc(by)
    \/ get_number_lazy
    \/ \E new_value \in SetArgs : set_number_lazy(new_value)
    \/ \E by \in IncArgs : inc_lazy(by)
    \/ \E of \in AccountId : get(of)
    \/ \E caller \in AccountId : get_my_number(caller)
    \/ \E caller \in AccountId, value \in SetMyArgs : set_my_number(caller, value)
    \/ \E caller \in AccountId, value \in AddMyArgs : add_my_number(caller, value)
    \/ get_balance

Spec == Init /\ [][Next]_vars

\* Behaviours whose callers use the eager counter only, as number_test does.
InitNumber == Constructed /\ left = MaxNumberCalls

NextNumber ==
    \/ get_number
    \/ \E new_value \in SetArgs : set_number(new_value)
    \/ \E by \in IncArgs : inc(by)

SpecNumber == InitNumber /\ [][NextNumber]_vars

\* The functions of the impl block that carry #[ink(message)]: the selectors
\* the contract exports.  add_my_number (src/lib.rs:137-142) is a pub fn
\* without the attribute.
Messages == {"flip", "get_bool", "get_number", "set_number", "inc",
             "get_number_lazy", "set_number_lazy", "inc_lazy", "get",
             "get_my_number", "set_my_number", "get_balance"}

\* The host dispatches a call of an external caller to an exported selector.
Dispatch(selector) == selector \in Messages

\* add_my_number(value) called as a contract message by an external caller.
message_add_my_number(caller, value) ==
    /\ Dispatch("add_my_number")
    /\ add_my_number(caller, value)

\* Behaviours in which every call is a contract message of an external caller.
NextMessages ==
    \/ Dispatch("flip") /\ flip
    \/ Dispatch("get_bool") /\ get_bool
    \/ Dispatch("get_number") /\ get_number
    \/ Dispatch("set_number") /\ \E new_value \in SetArgs : set_number(new_value)
    \/ Dispatch("inc") /\ \E by \in IncArgs : inc(by)
    \/ Dispatch("get_number_lazy") /\ get_number_lazy
    \/ Dispatch("set_number_lazy")
           /\ \E new_value \in SetArgs : set_number_lazy(new_value)
    \/ Dispatch("inc_lazy") /\ \E by \in IncArgs : inc_lazy(by)
    \/ Dispatch("get") /\ \E of \in AccountId : get(of)
    \/ Dispatch("get_my_number") /\ \E caller \in AccountId : get_my_number(caller)
    \/ Dispatch("set_my_number")
           /\ \E caller \in AccountId, value \in SetMyArgs :
                  set_my_number(caller, value)
    \/ Dispatch("get_balance") /\ get_balance

SpecMessages == Init /\ [][NextMessages]_vars

(* ------------------------------- claims ------------------------------- *)

IncOps == {"inc", "inc_lazy", "add_my_number"}

MapReads == {"get", "get_my_number"}

MapWrites == {"set_my_number", "add_my_number"}

\* C1 as stated: after set_number(v) and then inc(by), get_number() returns
\* (v + by) mod 2^32, whatever the build.
C1_AlwaysWraps ==
    [][(last.op = "set_number" /\ last'.op = "inc")
         => GetNumber(number') = (last.a1 + last'.a1) % Modulus]_vars

\* C1, amended: after set_number(v) and then inc(by), get_number() returns
\* v + by when the sum fits u32; when it does not, a build without overflow
\* checks returns (v + by) mod 2^32 and a build with them panics in inc and
\* leaves the number at v.  number_test's script set_number(3); inc(4);
\* inc(1); inc(2) yields 7, 8, 10 in turn.
C1_SetThenInc ==
    [][/\ (last.op = "set_number" /\ last'.op = "inc") =>
            IF last.a1 + last'.a1 <= U32Max
            THEN ~last'.trapped /\ GetNumber(number') = last.a1 + last'.a1
            ELSE IF overflow_checks
                 THEN last'.trapped /\ GetNumber(number') = last.a1
                 ELSE /\ ~last'.trapped
                      /\ GetNumber(number') = (last.a1 + last'.a1) % Modulus
       /\ number_test_pc' = 1 => GetNumber(number') = 3
       /\ number_test_pc' = 2 => GetNumber(number') = 7
       /\ number_test_pc' = 3 => GetNumber(number') = 8
       /\ number_test_pc' = 4 => GetNumber(number') = 10]_vars

\* C1's case: number_test's script has run to its end and the number is 10.
C1_Witness ==
    number_test_pc = 4 /\ last.op = "inc" /\ last.a1 = 2 /\ number = 10

\* C2: every call on the lazy counter answers as the corresponding call on
\* an eager counter constructed with the same seed and fed the same calls
\* (same returned value, same panic), and the two hold the same value.
C2_LazyMatchesEager ==
    /\ GetNumberLazy(lazy_number).ret = GetNumber(eager_shadow)
    /\ last.op \in {"get_number_lazy", "set_number_lazy", "inc_lazy"}
         => Answer(last.ret, last.trapped) = shadow_ret

\* C2's case: the lazy counter was set, incremented and read, and the read
\* returned the sum.
C2_Witness ==
    /\ last.op = "get_number_lazy" /\ last.ret = 7 /\ calls = 3
    /\ shadow_ret = Answer(7, FALSE) /\ number # 7

\* C3: add_my_number(v) by caller C leaves the map that
\* set_my_number(get_my_number() + v) by C leaves: C's entry is the (u32) sum
\* of C's number, 0 when C has no entry, and v, the other entries are
\* untouched; when the sum panics, neither writes.  add_my_number(3);
\* add_my_number(4) by a caller that never wrote leaves that caller at 7.
C3_AddIsSetOfGetPlus ==
    [][/\ last'.op = "add_my_number" =>
            LET c == last'.caller
                sum == U32Add(my_number_or_zero(account_number_map, c), last'.a1)
            IN  IF sum.trapped
                THEN last'.trapped /\ account_number_map' = account_number_map
                ELSE /\ ~last'.trapped
                     /\ account_number_map'
                          = SetMyNumber(account_number_map, c, sum.value)
                     /\ my_number_or_zero(account_number_map', c) = sum.value
       /\ (/\ last.op = "add_my_number" /\ last.a1 = 3
           /\ writes[last.caller] = 1
           /\ last'.op = "add_my_number" /\ last'.a1 = 4
           /\ last'.caller = last.caller)
            => my_number_or_zero(account_number_map', last.caller) = 7]_vars

\* C3's case: a caller's second write is add_my_number(4), and its number is 7.
C3_Witness ==
    /\ last.op = "add_my_number" /\ last.a1 = 4 /\ ~last.trapped
    /\ writes[last.caller] = 2 /\ calls = 2
    /\ my_number_or_zero(account_number_map, last.caller) = 7

\* C4: an identity that never called set_my_number or add_my_number has no
\* entry and reads as 0 in every state; get(A) returns 0 without panicking,
\* and no get changes the map.
C4_UnwrittenReadsZero ==
    /\ [](\A a \in AccountId : writes[a] = 0 =>
             /\ a \notin DOMAIN account_number_map
             /\ my_number_or_zero(account_number_map, a) = 0
             /\ (last.op = "get" /\ last.caller = a)
                  => last.ret = 0 /\ ~last.trapped)
    /\ [][last'.op = "get" => account_number_map' = account_number_map]_vars

\* C4's case: get(A) returned 0 for an identity that never wrote, while
\* another identity has an entry.
C4_Witness ==
    /\ last.op = "get" /\ writes[last.caller] = 0 /\ last.ret = 0
    /\ last.caller \notin DOMAIN account_number_map
    /\ DOMAIN account_number_map # {}

\* C5: an increment that panics on overflow leaves the flag, the eager
\* counter, the lazy counter's value, the map (keys and values) and the
\* balance as they were.
C5_TrapMutatesNothing ==
    [][last'.trapped =>
         /\ last'.op \in IncOps
         /\ bool_value' = bool_value
         /\ number' = number
         /\ lazy_number'.value = lazy_number.value
         /\ account_number_map' = account_number_map
         /\ balance' = balance]_vars

\* C5's case: add_my_number panicked for a caller whose number is at the
\* maximum.
C5_Witness ==
    /\ last.op = "add_my_number" /\ last.trapped
    /\ my_number_or_zero(account_number_map, last.caller) = U32Max

\* C6: the three increments treat overflow alike: whenever current + delta
\* exceeds the u32 range, inc, inc_lazy and add_my_number all panic and keep
\* the current value (a build with overflow checks), or all store the same
\* wrapped sum (a build without).
C6_UniformOverflow ==
    [][last'.op \in IncOps =>
         LET d == last'.a1
             c == CASE last'.op = "inc" -> GetNumber(number)
                    [] last'.op = "inc_lazy" -> GetNumberLazy(lazy_number).ret
                    [] last'.op = "add_my_number" ->
                         my_number_or_zero(account_number_map, last'.caller)
             after == CASE last'.op = "inc" -> GetNumber(number')
                        [] last'.op = "inc_lazy" -> GetNumberLazy(lazy_number').ret
                        [] last'.op = "add_my_number" ->
                             my_number_or_zero(account_number_map', last'.caller)
         IN  c + d > U32Max =>
               /\ last'.trapped = overflow_checks
               /\ after = IF overflow_checks THEN c ELSE (c + d) % Modulus]_vars

\* C6's case: inc_lazy overflowed in a build without overflow checks and
\* stored the wrapped sum.
C6_Witness ==
    /\ last.op = "inc_lazy" /\ ~last.trapped /\ ~overflow_checks
    /\ lazy_number.value < last.a1

\* C7: after an odd number of consecutive flip() calls get_bool() is the
\* negation of what it was before them and nothing else has changed; after
\* an even number (two in particular) the whole storage is as it was.
C7_FlipIsInvolution ==
    /\ last.op = "flip" <=> flips > 0
    /\ flips % 2 = 1 =>
         /\ bool_value = ~unflipped[1]
         /\ <<number, lazy_number, account_number_map, balance>>
              = <<unflipped[2], unflipped[3], unflipped[4], unflipped[5]>>
    /\ flips % 2 = 0 => storage = unflipped

\* C7's case: two consecutive flip() calls have run.
C7_Witness ==
    flips = 2 /\ last.op = "flip" /\ storage = unflipped /\ calls = 3

\* C8: get_number() right after set_number(v) returns v, and set_number(v)
\* leaves the number at v whatever it was.
C8_SetThenGet ==
    /\ [](last.op = "set_number" => GetNumber(number) = last.a1)
    /\ [][(last.op = "set_number" /\ last'.op = "get_number")
            => last'.ret = last.a1]_vars

\* C8's case: get_number() returned 3, the last eager-counter write being
\* set_number(3).
C8_Witness ==
    last.op = "get_number" /\ number_test_pc = 1 /\ last.ret = 3

\* C9: the storage default() produces is the storage new(false, 0, 0, 0)
\* produces, and every read right after default() returns false or 0.
C9_DefaultIsNewOfZeros ==
    /\ [](last.op = "default" =>
             /\ NewStorage(FALSE, 0, 0, 0)
             /\ bool_value = FALSE
             /\ GetNumber(number) = 0
             /\ GetNumberLazy(lazy_number).ret = 0
             /\ balance = 0
             /\ \A a \in AccountId : my_number_or_zero(account_number_map, a) = 0)
    /\ [][last.op = "default" =>
             /\ last'.op = "get_bool" => last'.rbool = FALSE
             /\ last'.op \in {"get_number", "get_number_lazy", "get_balance", "get"}
                  => last'.ret = 0]_vars

\* C9's case: the state default() has just produced.
C9_Witness ==
    last.op = "default" /\ calls = 0 /\ NewStorage(FALSE, 0, 0, 0)

\* C10: in every state the balance is the init_balance the constructor was
\* given, and get_balance() returns it.
C10_BalanceImmutable ==
    /\ balance = init_balance
    /\ last.op = "get_balance" => last.ret = init_balance

\* C10's case: get_balance() returned a non-zero init_balance after other
\* calls.
C10_Witness ==
    last.op = "get_balance" /\ last.ret = 5 /\ calls = 3 /\ number # 5 /\ init_balance = 5

\* C11: a missing key and a key set to 0 cannot be told apart.  twin_map[A]
\* began as the constructed map with A present at 0 and was fed every call
\* account_number_map was fed; until A's first write the two maps agree
\* everywhere except that A is missing from one and present with 0 in the
\* other, and every get(of) and get_my_number() answers the same on both,
\* for every A, every target and every caller, then and after A's writes.
C11_AbsentIsZero ==
    \A a \in AccountId :
        /\ writes[a] = 0 =>
               /\ a \notin DOMAIN account_number_map
               /\ twin_map[a] = Insert(account_number_map, a, 0)
        /\ last.op \in MapReads => twin_ret[a] = last.ret
        /\ \A of \in AccountId :
               /\ GetOf(twin_map[a], of) = GetOf(account_number_map, of)
               /\ GetMyNumber(twin_map[a], of) = GetMyNumber(account_number_map, of)

\* A read of an identity still missing from the map, after another identity
\* wrote, answers 0 where the twin holds the identity with an explicit 0.
C11_Witness ==
    /\ last.op \in MapReads
    /\ last.caller \notin DOMAIN account_number_map
    /\ last.caller \in DOMAIN twin_map[last.caller]
    /\ twin_map[last.caller][last.caller] = 0
    /\ DOMAIN account_number_map # {}
    /\ last.ret = 0
    /\ twin_ret[last.caller] = 0

\* C12 as stated: add_my_number(v) is a contract message like get_my_number
\* and set_my_number: in every reachable state with a call still to come an
\* external caller can invoke it as a message.
C12_AddIsMessage ==
    left > 0 => ENABLED (\E caller \in AccountId, value \in AddMyArgs :
                             message_add_my_number(caller, value))

LazyMessages == {"get_number_lazy", "set_number_lazy", "inc_lazy"}

\* The cell's load state where the claim speaks of it: not loaded when
\* constructed, loaded after a message on the lazy counter, and inc_lazy's
\* calls on the cell begin with the read, any write coming after it.
C13_LoadState ==
    /\ calls = 0 => ~lazy_number.loaded
    /\ last.op \in LazyMessages => lazy_number.loaded
    /\ last.op = "inc_lazy" =>
           /\ lazy_ops # <<>>
           /\ lazy_ops[1] = "get"
           /\ ~last.trapped => lazy_ops = <<"get", "set">>

\* C13: the lazy cell's load state is monotone.  It starts Unloaded, every
\* get_number_lazy, set_number_lazy and inc_lazy leaves it Loaded, no step
\* takes a Loaded cell back to Unloaded (so the cell goes from Unloaded to
\* Loaded at most once), and inc_lazy reads the cell before it writes it.
C13_LoadMonotone ==
    /\ []C13_LoadState
    /\ [][lazy_number.loaded => lazy_number'.loaded]_vars

\* The first call is an inc_lazy on the cell as constructed: it loads the
\* cell by its read and then writes the sum.
C13_Witness ==
    /\ calls = 1
    /\ last.op = "inc_lazy"
    /\ ~last.trapped
    /\ lazy_ops = <<"get", "set">>
    /\ lazy_number.loaded

\* C14: writes to the map are self-scoped.  A set_my_number or add_my_number
\* by caller C changes C's entry only: for every identity A other than C,
\* get(A) answers after the call what it answered before it, and no entry
\* for A is created, removed or altered.
C14_WritesSelfScoped ==
    [][last'.op \in MapWrites =>
         \A a \in AccountId \ {last'.caller} :
             /\ GetOf(account_number_map', a) = GetOf(account_number_map, a)
             /\ (a \in DOMAIN account_number_map') = (a \in DOMAIN account_number_map)
             /\ a \in DOMAIN account_number_map =>
                    account_number_map'[a] = account_number_map[a]]_vars

\* One identity holds 3; another then writes a different value of its own.
C14_Witness ==
    /\ last.op \in MapWrites
    /\ ~last.trapped
    /\ \E a \in AccountId \ {last.caller} :
           /\ a \in DOMAIN account_number_map
           /\ account_number_map[a] = 3
           /\ GetOf(account_number_map, last.caller) # 3
           /\ last.caller \in DOMAIN account_number_map

\* C15: read-after-write on the map.  After set_my_number(v) by C, and until
\* C's next set_my_number or add_my_number, get_my_number() by C and get(C)
\* by anyone answer v, whatever C held before; and in every reachable state
\* get_my_number() by C answers what get(C) answers.
C15_ReadAfterWrite ==
    /\ \A c \in AccountId :
           /\ GetMyNumber(account_number_map, c) = GetOf(account_number_map, c)
           /\ set_value[c] # NoSetValue =>
                  /\ GetMyNumber(account_number_map, c) = set_value[c]
                  /\ GetOf(account_number_map, c) = set_value[c]
                  /\ (last.op \in MapReads /\ last.caller = c) =>
                         last.ret = set_value[c]
    /\ last.op = "set_my_number" => set_value[last.caller] = last.a1
    /\ last.op \in MapReads => last.ret = GetOf(account_number_map, last.caller)

\* An identity set U32Max, then set 3 over it; a read of it answers 3.
C15_Witness ==
    /\ last.op \in MapReads
    /\ last.ret = 3
    /\ set_value[last.caller] = 3
    /\ writes[last.caller] = 2

\* The identities that have called set_my_number or add_my_number.
Writers == {a \in AccountId : writes[a] > 0}

\* C16: the map's key set is empty at construction and only grows.  In every
\* reachable state it is exactly the set of identities that have called
\* set_my_number or add_my_number at least once, a call with value or delta
\* 0 included, and a key once present is present in every later state.
C16_KeysAreWriters ==
    /\ [](/\ DOMAIN account_number_map = Writers
          /\ calls = 0 => DOMAIN account_number_map = {})
    /\ [][DOMAIN account_number_map \subseteq DOMAIN account_number_map']_vars

\* An identity's only write is add_my_number(0): it has an entry, holding 0,
\* while another identity has none.
C16_Witness ==
    /\ last.op = "add_my_number"
    /\ last.a1 = 0
    /\ writes[last.caller] = 1
    /\ DOMAIN account_number_map = {last.caller}
    /\ account_number_map[last.caller] = 0

\* C17: add_my_number is one atomic read-modify-write, and no increment is
\* lost.  With the calls of several callers interleaved call by call, every
\* state a reader can observe holds, for every identity, its last set value
\* plus the deltas of all its completed adds (the ledger, which does not look
\* at the map while the sums fit u32): after add(a) and add(b) by C, in
\* either order and with other callers' calls in between, C's counter has
\* grown by a + b, and every read answers the ledger.
C17_NoLostIncrement ==
    /\ \A c \in AccountId : GetOf(account_number_map, c) = ledger[c]
    /\ last.op \in MapReads => last.ret = ledger[last.caller]

\* C added 3 and 4 with a write of another identity among the three calls:
\* C's counter stands at 7.
C17_Witness ==
    /\ calls = 3
    /\ last.op = "add_my_number"
    /\ ~last.trapped
    /\ writes[last.caller] = 2
    /\ set_value[last.caller] = NoSetValue
    /\ \E a \in AccountId \ {last.caller} : writes[a] = 1
    /\ last.a1 \in {3, 4}
    /\ account_number_map[last.caller] = 7

Footprint(op) ==
    CASE op = "flip" -> {"bool_value"}
      [] op \in {"set_number", "inc"} -> {"number"}
      [] op \in {"set_number_lazy", "inc_lazy", "get_number_lazy"} -> {"lazy_number"}
      [] op \in MapWrites -> {"account_number_map"}
      [] OTHER -> {}

\* C19: every operation changes its own field only.  flip changes the flag
\* alone; set_number and inc the eager counter alone; set_number_lazy and
\* inc_lazy the lazy counter alone; set_my_number and add_my_number the map
\* alone; get_bool, get_number, get, get_my_number and get_balance change
\* nothing; get_number_lazy changes at most the lazy cell's load state, never
\* its value.  The balance is changed by no operation.
C19_Frame ==
    [][/\ "bool_value" \notin Footprint(last'.op) => bool_value' = bool_value
       /\ "number" \notin Footprint(last'.op) => number' = number
       /\ "lazy_number" \notin Footprint(last'.op) => lazy_number' = lazy_number
       /\ "account_number_map" \notin Footprint(last'.op) =>
              account_number_map' = account_number_map
       /\ balance' = balance
       /\ last'.op = "get_number_lazy" =>
              LazyValue(lazy_number') = LazyValue(lazy_number)]_vars

\* The first call is get_number_lazy on a cell seeded with u32::MAX: the cell
\* is now loaded and still holds u32::MAX, beside a number of 4.
C19_Witness ==
    /\ calls = 1
    /\ last.op = "get_number_lazy"
    /\ lazy_number = [loaded |-> TRUE, value |-> U32Max]
    /\ number = 4
    /\ unflipped = storage

====
